---- MODULE Spec2Model ----
(***************************************************************************)
(* bucketchecker (src/main.rs): classification of bucket identifiers, the  *)
(* read (GET) and write (PUT) probes, and the parallel run of main():      *)
(* lines.par_iter().map(probe).filter_map().collect(), then the summary.   *)
(*                                                                         *)
(* Strings are sequences of one-character strings, so that trim, ends_with,*)
(* starts_with, trim_end_matches, split and contains are computed on the   *)
(* characters as the Rust standard library computes them.                  *)
(* An Option is a sequence of length at most one: None is <<>>, Some(x) is *)
(* <<x>>.                                                                  *)
(***************************************************************************)
EXTENDS Integers, Sequences, FiniteSets, TLC

VARIABLES
  input,      \* the lines of the input file or of stdin, as read
  nworkers,   \* the size of rayon's thread pool
  pc,         \* where main() is: "read", "probe", "header", "summary", "done"
  lines,      \* main's `lines`: the input lines that are not blank
  st,         \* per index of `lines`, where its closure is: "todo", "get", "put", "done"
  target,     \* per index, the Option<BucketTarget> of extract_target
  geturl,     \* per index, the URL of the GET issued (Option)
  puturl,     \* per index, the URL of the PUT issued (Option)
  rresp,      \* per index, what the GET resolved to (Option)
  wresp,      \* per index, what the PUT resolved to (Option)
  readable,   \* per index, check_read's value (Option)
  writable,   \* per index, check_write's value (Option)
  ret,        \* per index, the closure's return value, an Option of a tuple (Option of it)
  stdout,     \* the lines printed so far
  results,    \* main's `results`, once collected
  k           \* the summary loop's position in `results`

vars == <<input, nworkers, pc, lines, st, target, geturl, puturl, rresp, wresp,
          readable, writable, ret, stdout, results, k>>

\* ------------------------------------------------------------------ bounds

MaxLines == 3
MaxWorkers == 2
MaxPieces == 3

\* ----------------------------------------------------------------- options

None == <<>>

Some(x) == <<x>>

IsSome(o) == Len(o) = 1

Get(o) == o[1]

\* ----------------------------------------------------------------- strings

SfxAwsS3 ==
  <<".","s","3",".","a","m","a","z","o","n","a","w","s",".","c","o","m">>

PfxAwsS3 ==
  <<"s","3",".","a","m","a","z","o","n","a","w","s",".","c","o","m","/">>

SfxDigitalOcean ==
  <<".","d","i","g","i","t","a","l","o","c","e","a","n","s","p","a","c","e","s",".","c","o","m">>

SfxLinode ==
  <<".","l","i","n","o","d","e","o","b","j","e","c","t","s",".","c","o","m">>

SfxAzure ==
  <<".","b","l","o","b",".","c","o","r","e",".","w","i","n","d","o","w","s",".","n","e","t">>

SfxGcp ==
  <<".","s","t","o","r","a","g","e",".","g","o","o","g","l","e","a","p","i","s",".","c","o","m">>

PfxGcp ==
  <<"s","t","o","r","a","g","e",".","g","o","o","g","l","e","a","p","i","s",".","c","o","m","/">>

DomainAwsS3 ==
  <<"s","3",".","a","m","a","z","o","n","a","w","s",".","c","o","m">>

DomainDigitalOcean ==
  <<"n","y","c","3",".","d","i","g","i","t","a","l","o","c","e","a","n","s","p","a","c","e","s",".","c","o","m">>

DomainLinode ==
  <<"u","s","-","e","a","s","t","-","1",".","l","i","n","o","d","e","o","b","j","e","c","t","s",".","c","o","m">>

SchemeHttp ==
  <<"h","t","t","p",":","/","/">>

SchemeHttps ==
  <<"h","t","t","p","s",":","/","/">>

AzureReadTail ==
  <<".","b","l","o","b",".","c","o","r","e",".","w","i","n","d","o","w","s",".","n","e","t","/","?","r","e","s","t","y","p","e","=","c","o","n","t","a","i","n","e","r","&","c","o","m","p","=","l","i","s","t">>

AzureWriteTail ==
  <<".","b","l","o","b",".","c","o","r","e",".","w","i","n","d","o","w","s",".","n","e","t","/">>

GcpHost ==
  <<"s","t","o","r","a","g","e",".","g","o","o","g","l","e","a","p","i","s",".","c","o","m","/">>

test_object ==
  <<"c","o","d","e","c","o","m","p","a","n","i","o","n","-","t","e","s","t","-","o","b","j","e","c","t",".","t","x","t">>

MarkerS3 ==
  <<"<","L","i","s","t","B","u","c","k","e","t","R","e","s","u","l","t">>

MarkerAzure ==
  <<"E","n","u","m","e","r","a","t","i","o","n","R","e","s","u","l","t","s">>

MarkerGcp ==
  <<"L","i","s","t","B","u","c","k","e","t","R","e","s","u","l","t">>

MarkerXml ==
  <<"x","m","l">>

\* char::is_whitespace, on the characters the inputs here are made of.
WhiteSpace == {" ", "\t"}

\* str::is_empty
IsEmpty(s) == Len(s) = 0

\* str::trim_start
RECURSIVE TrimStart(_)
TrimStart(s) ==
  IF Len(s) > 0 /\ s[1] \in WhiteSpace THEN TrimStart(Tail(s)) ELSE s

\* str::trim_end
RECURSIVE TrimEnd(_)
TrimEnd(s) ==
  IF Len(s) > 0 /\ s[Len(s)] \in WhiteSpace
  THEN TrimEnd(SubSeq(s, 1, Len(s) - 1))
  ELSE s

\* str::trim
Trim(s) == TrimEnd(TrimStart(s))

\* str::ends_with
EndsWith(s, suf) ==
  /\ Len(suf) <= Len(s)
  /\ SubSeq(s, Len(s) - Len(suf) + 1, Len(s)) = suf

\* str::starts_with
StartsWith(s, pre) ==
  /\ Len(pre) <= Len(s)
  /\ SubSeq(s, 1, Len(pre)) = pre

\* One occurrence of the suffix removed (str::strip_suffix, where it matches).
StripSuffixOnce(s, suf) ==
  IF EndsWith(s, suf) THEN SubSeq(s, 1, Len(s) - Len(suf)) ELSE s

\* str::trim_end_matches: the suffix is removed repeatedly, while it matches.
RECURSIVE TrimEndMatches(_, _)
TrimEndMatches(s, suf) ==
  IF Len(suf) > 0 /\ EndsWith(s, suf)
  THEN TrimEndMatches(SubSeq(s, 1, Len(s) - Len(suf)), suf)
  ELSE s

\* str::split(char), collected: the segments between the occurrences of c.
RECURSIVE Split(_, _)
Split(s, c) ==
  IF \E p \in 1..Len(s) : s[p] = c
  THEN LET p == CHOOSE q \in 1..Len(s) : s[q] = c /\ \A r \in 1..(q - 1) : s[r] # c
       IN <<SubSeq(s, 1, p - 1)>> \o Split(SubSeq(s, p + 1, Len(s)), c)
  ELSE <<s>>

\* str::contains(&str)
Contains(s, pat) ==
  \E p \in 0..(Len(s) - Len(pat)) : SubSeq(s, p + 1, p + Len(pat)) = pat

\* --------------------------------------------------------------- providers

Providers ==
  {"AwsS3", "AzureBlob", "GcpStorage", "DigitalOceanSpaces", "LinodeObjStorage", "Unknown"}

BucketTarget(p, b) == [provider |-> p, bucket |-> b]

\* extract_target with the two GCP rules tried before the DigitalOcean, Linode
\* and Azure rules.
extract_target_gcp_first(line) ==
  LET trimmed == Trim(line) IN
  IF IsEmpty(trimmed) THEN None
  ELSE IF EndsWith(trimmed, SfxAwsS3)
  THEN Some(BucketTarget("AwsS3", TrimEndMatches(trimmed, SfxAwsS3)))
  ELSE IF StartsWith(trimmed, PfxAwsS3) /\ Len(Split(trimmed, "/")) >= 2
  THEN Some(BucketTarget("AwsS3", Split(trimmed, "/")[2]))
  ELSE IF EndsWith(trimmed, SfxGcp)
  THEN Some(BucketTarget("GcpStorage", TrimEndMatches(trimmed, SfxGcp)))
  ELSE IF StartsWith(trimmed, PfxGcp) /\ Len(Split(trimmed, "/")) >= 2
  THEN Some(BucketTarget("GcpStorage", Split(trimmed, "/")[2]))
  ELSE IF EndsWith(trimmed, SfxDigitalOcean)
  THEN Some(BucketTarget("DigitalOceanSpaces", Split(trimmed, ".")[1]))
  ELSE IF EndsWith(trimmed, SfxLinode)
  THEN Some(BucketTarget("LinodeObjStorage", Split(trimmed, ".")[1]))
  ELSE IF EndsWith(trimmed, SfxAzure)
  THEN Some(BucketTarget("AzureBlob", Split(trimmed, ".")[1]))
  ELSE Some(BucketTarget("Unknown", trimmed))

\* extract_target: the Option<BucketTarget> of one line.
extract_target(line) ==
  LET trimmed == Trim(line) IN
  IF IsEmpty(trimmed) THEN None
  ELSE IF EndsWith(trimmed, SfxAwsS3)
  THEN Some(BucketTarget("AwsS3", TrimEndMatches(trimmed, SfxAwsS3)))
  ELSE IF StartsWith(trimmed, PfxAwsS3) /\ Len(Split(trimmed, "/")) >= 2
  THEN Some(BucketTarget("AwsS3", Split(trimmed, "/")[2]))
  ELSE IF EndsWith(trimmed, SfxDigitalOcean)
  THEN Some(BucketTarget("DigitalOceanSpaces", Split(trimmed, ".")[1]))
  ELSE IF EndsWith(trimmed, SfxLinode)
  THEN Some(BucketTarget("LinodeObjStorage", Split(trimmed, ".")[1]))
  ELSE IF EndsWith(trimmed, SfxAzure)
  THEN Some(BucketTarget("AzureBlob", Split(trimmed, ".")[1]))
  ELSE IF EndsWith(trimmed, SfxGcp)
  THEN Some(BucketTarget("GcpStorage", TrimEndMatches(trimmed, SfxGcp)))
  ELSE IF StartsWith(trimmed, PfxGcp) /\ Len(Split(trimmed, "/")) >= 2
  THEN Some(BucketTarget("GcpStorage", Split(trimmed, "/")[2]))
  ELSE Some(BucketTarget("Unknown", trimmed))

\* get_provider_domain
get_provider_domain(provider) ==
  CASE provider = "AwsS3" -> DomainAwsS3
    [] provider = "DigitalOceanSpaces" -> DomainDigitalOcean
    [] provider = "LinodeObjStorage" -> DomainLinode
    [] OTHER -> <<>>

\* construct_read_url
construct_read_url(t) ==
  CASE t.provider \in {"AwsS3", "DigitalOceanSpaces", "LinodeObjStorage"} ->
         SchemeHttp \o t.bucket \o <<".">> \o get_provider_domain(t.provider)
    [] t.provider = "AzureBlob" -> SchemeHttps \o t.bucket \o AzureReadTail
    [] t.provider = "GcpStorage" -> SchemeHttps \o GcpHost \o t.bucket \o <<"/">>
    [] OTHER -> SchemeHttp \o t.bucket

\* construct_write_url
construct_write_url(t) ==
  CASE t.provider \in {"AwsS3", "DigitalOceanSpaces", "LinodeObjStorage"} ->
         SchemeHttp \o t.bucket \o <<".">> \o get_provider_domain(t.provider)
           \o <<"/">> \o test_object
    [] t.provider = "AzureBlob" -> SchemeHttps \o t.bucket \o AzureWriteTail \o test_object
    [] t.provider = "GcpStorage" ->
         SchemeHttps \o GcpHost \o t.bucket \o <<"/">> \o test_object
    [] OTHER -> SchemeHttp \o t.bucket \o <<"/">> \o test_object

\* provider_str
provider_str(provider) ==
  CASE provider = "AwsS3" -> "AWS S3"
    [] provider = "AzureBlob" -> "Azure Blob"
    [] provider = "GcpStorage" -> "GCP Storage"
    [] provider = "DigitalOceanSpaces" -> "DigitalOcean Spaces"
    [] provider = "LinodeObjStorage" -> "Linode Object Storage"
    [] OTHER -> "Unknown"

\* ------------------------------------------------------------ HTTP outcomes

\* What client.get(..).send() or client.put(..).send() resolves to: Err(_), or
\* Ok(r) with r.status() and r.text() (None when reading the body fails).
TransportError == [ok |-> FALSE, status |-> 0, body |-> None]

Response(status, body) == [ok |-> TRUE, status |-> status, body |-> body]

\* StatusCode::is_success
is_success(status) == 200 <= status /\ status <= 299

\* check_read that trusts the body without looking at the status.
check_read_any_status(t, resp) ==
  /\ resp.ok
  /\ IsSome(resp.body)
  /\ CASE t.provider \in {"AwsS3", "DigitalOceanSpaces", "LinodeObjStorage"} ->
            Contains(Get(resp.body), MarkerS3)
       [] t.provider = "AzureBlob" -> Contains(Get(resp.body), MarkerAzure)
       [] t.provider = "GcpStorage" ->
            Contains(Get(resp.body), MarkerGcp) \/ Contains(Get(resp.body), MarkerXml)
       [] OTHER -> FALSE

\* check_read, on what the GET resolved to.
check_read(t, resp) ==
  IF resp.ok
  THEN CASE t.provider \in {"AwsS3", "DigitalOceanSpaces", "LinodeObjStorage"} ->
              is_success(resp.status)
                /\ (IF IsSome(resp.body) THEN Contains(Get(resp.body), MarkerS3) ELSE FALSE)
         [] t.provider = "AzureBlob" ->
              is_success(resp.status)
                /\ (IF IsSome(resp.body) THEN Contains(Get(resp.body), MarkerAzure) ELSE FALSE)
         [] t.provider = "GcpStorage" ->
              is_success(resp.status)
                /\ (IF IsSome(resp.body)
                    THEN Contains(Get(resp.body), MarkerGcp)
                           \/ Contains(Get(resp.body), MarkerXml)
                    ELSE FALSE)
         [] OTHER -> FALSE
  ELSE FALSE

\* check_write that also reads a flag of the other tasks: once some target was
\* found writable, no other is.
check_write_shared(t, resp) ==
  /\ resp.ok
  /\ is_success(resp.status)
  /\ \A j \in 1..Len(writable) : writable[j] # Some(TRUE)

\* check_write, on what the PUT resolved to.
check_write(t, resp) ==
  IF resp.ok THEN is_success(resp.status) ELSE FALSE

\* The status tag of the per-target line, without the colour codes.
StatusTag(r, w) ==
  CASE r /\ w -> "[read] [write]"
    [] r /\ ~w -> "[read]"
    [] ~r /\ w -> "[write]"
    [] OTHER -> "[no access]"

\* The summary's perms vector, before join(", ").
Perms(r, w) ==
  (IF r THEN <<"read">> ELSE <<>>) \o (IF w THEN <<"write">> ELSE <<>>)

\* -------------------------------------------------------------- the inputs

LineAws ==
  <<"a",".","s","3",".","a","m","a","z","o","n","a","w","s",".","c","o","m">>

LineAzure ==
  <<"b",".","b","l","o","b",".","c","o","r","e",".","w","i","n","d","o","w","s",".","n","e","t">>

LineGcp ==
  <<"s","t","o","r","a","g","e",".","g","o","o","g","l","e","a","p","i","s",".","c","o","m","/","c">>

LineDigitalOcean ==
  <<"d",".","d","i","g","i","t","a","l","o","c","e","a","n","s","p","a","c","e","s",".","c","o","m">>

LineLinode ==
  <<"e",".","l","i","n","o","d","e","o","b","j","e","c","t","s",".","c","o","m">>

LineUnknown ==
  <<"h">>

LineBlank ==
  <<" ">>

\* The lines of the concurrent runs.
InputLines == {LineAws, LineUnknown}

\* The lines of the runs over inputs with blank lines.
BlankInputLines == {LineAws, LineBlank}

\* One line per provider, for the runs that vary the responses.
ProviderLines ==
  {LineAws, LineAzure, LineGcp, LineDigitalOcean, LineLinode, LineUnknown}

\* The pieces the classified lines are put together from.
Pieces ==
  {<<"a">>, <<".">>, <<"/">>, <<" ">>, SfxAwsS3, PfxAwsS3, SfxDigitalOcean, SfxLinode,
   SfxAzure, SfxGcp, PfxGcp}

RECURSIVE PieceLines(_)
PieceLines(n) ==
  IF n = 0 THEN {<<>>}
  ELSE LET prev == PieceLines(n - 1) IN prev \cup {p \o x : p \in Pieces, x \in prev}

RECURSIVE SeqsUpTo(_, _)
SeqsUpTo(S, n) ==
  IF n = 0 THEN {<<>>}
  ELSE LET prev == SeqsUpTo(S, n - 1) IN prev \cup {Append(x, e) : x \in prev, e \in S}

BodyListing ==
  <<"<","?","x","m","l","?",">","<","L","i","s","t","B","u","c","k","e","t","R","e","s","u","l","t",">">>

BodyDenied ==
  <<"<","E","r","r","o","r",">">>

\* The responses of the concurrent runs: a transport error, or a listing.
FewResponses == {TransportError, Response(200, Some(MarkerS3))}

ProbeStatuses == {199, 200, 204, 299, 300, 403}

ProbeBodies ==
  {None, Some(<<>>), Some(MarkerS3), Some(MarkerGcp), Some(MarkerAzure), Some(MarkerXml),
   Some(BodyListing), Some(BodyDenied)}

\* The responses of the runs that vary the responses.
ProbeResponses ==
  {TransportError} \cup {Response(s, b) : s \in ProbeStatuses, b \in ProbeBodies}

\* ------------------------------------------------------------------ state

Indices == 1..Len(lines)

\* The closures a pool thread is running: their request is in flight.
InFlight == {i \in Indices : st[i] \in {"get", "put"}}

\* The closure's return value for a classified target. idx is the index of the
\* line in `lines`; the program's tuple has no such field, it is kept to tell
\* equal lines apart.
Outcome(i, t, r, w) ==
  [idx |-> i, provider |-> t.provider, bucket |-> t.bucket, readable |-> r, writable |-> w]

\* println!("{} | {} | {}", provider_str, bucket, status)
TargetLine(i, t, r, w) ==
  [kind |-> "target", idx |-> i, label |-> provider_str(t.provider), bucket |-> t.bucket,
   status |-> StatusTag(r, w), perms |-> <<>>]

\* println!("\nBuckets with open permissions:")
HeaderLine ==
  [kind |-> "header", idx |-> 0, label |-> "", bucket |-> <<>>, status |-> "", perms |-> <<>>]

\* println!("{} | {} | [{}]", provider_str, bucket, perms.join(", "))
SummaryLine(o) ==
  [kind |-> "summary", idx |-> o.idx, label |-> provider_str(o.provider),
   bucket |-> o.bucket, status |-> "", perms |-> Perms(o.readable, o.writable)]

\* The summary loop's test of one result.
IsOpen(o) == o.readable \/ o.writable

\* The test with && in the place of ||.
IsOpenBoth(o) == o.readable /\ o.writable

\* for (..) in &results { if *readable || *writable {
SummaryFilter(o) == IsOpen(o)

InitState ==
  /\ pc = "read"
  /\ lines = <<>>
  /\ st = <<>>
  /\ target = <<>>
  /\ geturl = <<>>
  /\ puturl = <<>>
  /\ rresp = <<>>
  /\ wresp = <<>>
  /\ readable = <<>>
  /\ writable = <<>>
  /\ ret = <<>>
  /\ stdout = <<>>
  /\ results = <<>>
  /\ k = 0

\* A run over up to MaxLines lines, on a pool of one thread or of MaxWorkers.
Init ==
  /\ input \in SeqsUpTo(InputLines, MaxLines)
  /\ nworkers \in {1, MaxWorkers}
  /\ InitState

\* A run over up to MaxLines lines, blank ones among them.
InitBlank ==
  /\ input \in SeqsUpTo(BlankInputLines, MaxLines)
  /\ nworkers \in {1, MaxWorkers}
  /\ InitState

\* A run over one line put together from up to MaxPieces pieces.
InitClassify ==
  /\ input \in {<<l>> : l \in PieceLines(MaxPieces)}
  /\ nworkers = 1
  /\ InitState

\* A run over one line of each provider.
InitProbe ==
  /\ input \in {<<l>> : l \in ProviderLines}
  /\ nworkers = 1
  /\ InitState

\* .filter(|line| !line.trim().is_empty())
NotBlank(line) == ~IsEmpty(Trim(line))

\* main, lines 161-177: the input lines that are not blank.
ReadLines ==
  /\ pc = "read"
  /\ lines' = SelectSeq(input, NotBlank)
  /\ st' = [i \in 1..Len(lines') |-> "todo"]
  /\ target' = [i \in 1..Len(lines') |-> None]
  /\ geturl' = [i \in 1..Len(lines') |-> None]
  /\ puturl' = [i \in 1..Len(lines') |-> None]
  /\ rresp' = [i \in 1..Len(lines') |-> None]
  /\ wresp' = [i \in 1..Len(lines') |-> None]
  /\ readable' = [i \in 1..Len(lines') |-> None]
  /\ writable' = [i \in 1..Len(lines') |-> None]
  /\ ret' = [i \in 1..Len(lines') |-> None]
  /\ pc' = "probe"
  /\ UNCHANGED <<input, nworkers, stdout, results, k>>

\* A pool thread takes the closure of line i: extract_target, then check_read
\* up to the GET being sent. A pool of one thread runs the closures from left
\* to right; with more threads the halves of the split are stolen and any
\* line not yet taken may be the next, while a thread is free.
Start(i) ==
  /\ pc = "probe"
  /\ st[i] = "todo"
  /\ Cardinality(InFlight) < nworkers
  /\ nworkers = 1 => \A j \in 1..(i - 1) : st[j] # "todo"
  /\ LET t == extract_target(lines[i]) IN
       /\ target' = [target EXCEPT ![i] = t]
       /\ IF IsSome(t)
          THEN /\ geturl' = [geturl EXCEPT ![i] = Some(construct_read_url(Get(t)))]
               /\ st' = [st EXCEPT ![i] = "get"]
               /\ ret' = ret
          ELSE /\ geturl' = geturl
               /\ st' = [st EXCEPT ![i] = "done"]
               /\ ret' = [ret EXCEPT ![i] = Some(None)]
  /\ UNCHANGED <<input, nworkers, pc, lines, puturl, rresp, wresp, readable, writable,
                 stdout, results, k>>

\* RecvRead with the per-target line printed as soon as the GET resolved.
RecvReadPrintsEarly(i, R) ==
  /\ pc = "probe"
  /\ st[i] = "get"
  /\ \E resp \in R :
       /\ rresp' = [rresp EXCEPT ![i] = Some(resp)]
       /\ readable' = [readable EXCEPT ![i] = Some(check_read(Get(target[i]), resp))]
       /\ stdout' = Append(stdout,
            TargetLine(i, Get(target[i]), check_read(Get(target[i]), resp), FALSE))
  /\ puturl' = [puturl EXCEPT ![i] = Some(construct_write_url(Get(target[i])))]
  /\ st' = [st EXCEPT ![i] = "put"]
  /\ UNCHANGED <<input, nworkers, pc, lines, target, geturl, wresp, writable, ret,
                 results, k>>

\* RecvRead with send().unwrap(): a transport error panics, and the panic of a
\* closure is resumed in main.
RecvReadUnwrap(i, R) ==
  /\ pc = "probe"
  /\ st[i] = "get"
  /\ \E resp \in R :
       /\ rresp' = [rresp EXCEPT ![i] = Some(resp)]
       /\ readable' = [readable EXCEPT ![i] = Some(check_read(Get(target[i]), resp))]
       /\ pc' = IF resp.ok THEN pc ELSE "panicked"
  /\ puturl' = [puturl EXCEPT ![i] = Some(construct_write_url(Get(target[i])))]
  /\ st' = [st EXCEPT ![i] = "put"]
  /\ UNCHANGED <<input, nworkers, lines, target, geturl, wresp, writable, ret,
                 stdout, results, k>>

\* The GET of line i resolves to one of R: check_read returns, and check_write
\* runs up to the PUT being sent.
RecvRead(i, R) ==
  /\ pc = "probe"
  /\ st[i] = "get"
  /\ \E resp \in R :
       /\ rresp' = [rresp EXCEPT ![i] = Some(resp)]
       /\ readable' = [readable EXCEPT ![i] = Some(check_read(Get(target[i]), resp))]
  /\ puturl' = [puturl EXCEPT ![i] = Some(construct_write_url(Get(target[i])))]
  /\ st' = [st EXCEPT ![i] = "put"]
  /\ UNCHANGED <<input, nworkers, pc, lines, target, geturl, wresp, writable, ret,
                 stdout, results, k>>

\* The PUT of line i resolves to one of R: check_write returns, the per-target
\* line is printed (println! holds the lock of stdout for the line) and the
\* closure returns its tuple.
RecvWrite(i, R) ==
  /\ pc = "probe"
  /\ st[i] = "put"
  /\ \E resp \in R :
       LET t == Get(target[i])
           r == Get(readable[i])
           w == check_write(t, resp)
       IN /\ wresp' = [wresp EXCEPT ![i] = Some(resp)]
          /\ writable' = [writable EXCEPT ![i] = Some(w)]
          /\ stdout' = Append(stdout, TargetLine(i, t, r, w))
          /\ ret' = [ret EXCEPT ![i] = Some(Some(Outcome(i, t, r, w)))]
  /\ st' = [st EXCEPT ![i] = "done"]
  /\ UNCHANGED <<input, nworkers, pc, lines, target, geturl, puturl, rresp, readable,
                 results, k>>

\* The closures' values in the order of the lines.
Mapped == [i \in Indices |-> Get(ret[i])]

\* A collect that takes the values in the order the closures finished in (the
\* order of their lines on stdout), as a shared Mutex<Vec> would.
CollectByCompletion ==
  LET fin == SelectSeq(stdout, LAMBDA l : l.kind = "target") IN
  [j \in 1..Len(fin) |-> Get(Get(ret[fin[j].idx]))]

\* A collect that puts the later half before the earlier one.
CollectReversed ==
  LET kept == SelectSeq(Mapped, IsSome) IN
  [j \in 1..Len(kept) |-> Get(kept[Len(kept) + 1 - j])]

\* A collect that keeps only the targets found open.
CollectOpenOnly ==
  LET kept == SelectSeq(Mapped, LAMBDA o : IsSome(o) /\ IsOpen(Get(o))) IN
  [j \in 1..Len(kept) |-> Get(kept[j])]

\* .filter_map(|r| r).collect(): rayon collects a parallel iterator into a Vec
\* in the order of the items it was made from, whatever order they ran in.
CollectResults ==
  LET kept == SelectSeq(Mapped, IsSome) IN
  [j \in 1..Len(kept) |-> Get(kept[j])]

\* par_iter ends when every closure has returned; results is bound.
Collect ==
  /\ pc = "probe"
  /\ \A i \in Indices : st[i] = "done"
  /\ results' = CollectResults
  /\ pc' = "header"
  /\ UNCHANGED <<input, nworkers, lines, st, target, geturl, puturl, rresp, wresp,
                 readable, writable, ret, stdout, k>>

\* The summary's header line.
PrintHeader ==
  /\ pc = "header"
  /\ stdout' = Append(stdout, HeaderLine)
  /\ k' = 1
  /\ pc' = "summary"
  /\ UNCHANGED <<input, nworkers, lines, st, target, geturl, puturl, rresp, wresp,
                 readable, writable, ret, results>>

\* One turn of the summary loop.
SummaryStep ==
  /\ pc = "summary"
  /\ k <= Len(results)
  /\ stdout' = IF SummaryFilter(results[k])
               THEN Append(stdout, SummaryLine(results[k]))
               ELSE stdout
  /\ k' = k + 1
  /\ UNCHANGED <<input, nworkers, pc, lines, st, target, geturl, puturl, rresp, wresp,
                 readable, writable, ret, results>>

\* main returns.
Exit ==
  /\ pc = "summary"
  /\ k > Len(results)
  /\ pc' = "done"
  /\ UNCHANGED <<input, nworkers, lines, st, target, geturl, puturl, rresp, wresp,
                 readable, writable, ret, stdout, results, k>>

Next ==
  \/ ReadLines
  \/ \E i \in Indices : Start(i)
  \/ \E i \in Indices : RecvRead(i, FewResponses)
  \/ \E i \in Indices : RecvWrite(i, FewResponses)
  \/ Collect
  \/ PrintHeader
  \/ SummaryStep
  \/ Exit

NextProbe ==
  \/ ReadLines
  \/ \E i \in Indices : Start(i)
  \/ \E i \in Indices : RecvRead(i, ProbeResponses)
  \/ \E i \in Indices : RecvWrite(i, ProbeResponses)
  \/ Collect
  \/ PrintHeader
  \/ SummaryStep
  \/ Exit

\* The concurrent run.
Spec == Init /\ [][Next]_vars

\* The concurrent run over inputs with blank lines.
SpecBlank == InitBlank /\ [][Next]_vars

\* That run, with every request resolving and the pool's threads scheduled.
FairSpec == InitBlank /\ [][Next]_vars /\ WF_vars(Next)

\* One line, of any shape.
SpecClassify == InitClassify /\ [][Next]_vars

\* One line, with any response.
SpecProbe == InitProbe /\ [][NextProbe]_vars

\* ------------------------------------------------------------- the claims

TargetPositions == {p \in 1..Len(stdout) : stdout[p].kind = "target"}

SummaryPositions == {p \in 1..Len(stdout) : stdout[p].kind = "summary"}

\* Where the per-target line of index i is on stdout (0: not printed).
TargetPos(i) ==
  IF \E p \in TargetPositions : stdout[p].idx = i
  THEN CHOOSE p \in TargetPositions : stdout[p].idx = i
  ELSE 0

\* Where the summary line of index i is on stdout (0: not printed).
SummaryPos(i) ==
  IF \E p \in SummaryPositions : stdout[p].idx = i
  THEN CHOOSE p \in SummaryPositions : stdout[p].idx = i
  ELSE 0

Collected == pc \in {"header", "summary", "done"}

\* A line of whitespace only, or empty.
IsBlankLine(l) == \A p \in 1..Len(l) : l[p] \in WhiteSpace

NonBlankCount == Cardinality({n \in 1..Len(input) : ~IsBlankLine(input[n])})

\* C1, as stated: the summary lists the open targets in the order their
\* per-target lines were printed in (completion order): of two summary lines,
\* the earlier one belongs to the target whose per-target line came earlier.
C1_SummaryInCompletionOrder ==
  \A p, q \in SummaryPositions :
    p < q => TargetPos(stdout[p].idx) < TargetPos(stdout[q].idx)

\* C1, amended: the summary lists the open targets in input order, not in
\* completion order. For two summary lines, of targets a and b, where a's
\* per-target line came before b's, a's summary line precedes b's exactly when
\* a's line precedes b's in the input.
C1_SummaryOrderAmended ==
  \A p, q \in SummaryPositions :
    TargetPos(stdout[p].idx) < TargetPos(stdout[q].idx)
      => (p < q <=> stdout[p].idx < stdout[q].idx)

\* C1's case: the run is over, and a target later in the input printed its
\* per-target line first, yet comes second in the summary.
C1_Witness ==
  /\ pc = "done"
  /\ \E a, b \in Indices :
       /\ a > b
       /\ TargetPos(a) < TargetPos(b)
       /\ SummaryPos(b) > 0
       /\ SummaryPos(b) < SummaryPos(a)

\* C2: a target's per-target line and its outcome tuple exist only once its
\* GET and its PUT have both been issued and have both resolved; no line of a
\* target is on stdout while its closure is still at "todo", "get" or "put";
\* and a finished target has exactly one per-target line.
C2_LineAfterBothProbes ==
  /\ \A p \in TargetPositions :
       LET i == stdout[p].idx IN
         /\ st[i] = "done"
         /\ IsSome(geturl[i]) /\ IsSome(rresp[i])
         /\ IsSome(puturl[i]) /\ IsSome(wresp[i])
  /\ \A i \in Indices :
       /\ (IsSome(ret[i]) /\ IsSome(Get(ret[i]))) => (IsSome(rresp[i]) /\ IsSome(wresp[i]))
       /\ Cardinality({p \in TargetPositions : stdout[p].idx = i})
            = (IF st[i] = "done" /\ IsSome(target[i]) THEN 1 ELSE 0)
  /\ Collected => \A i \in Indices : TargetPos(i) > 0

\* C2's case: one target's line is printed while another target's PUT and a
\* third one's GET are still in flight.
C2_Witness ==
  \E i, j, m \in Indices :
    /\ TargetPos(i) > 0
    /\ st[j] = "put"
    /\ st[m] = "get"

\* C3: once the results are collected there is exactly one outcome for each
\* input line that is not blank and none for a blank one, whatever probes
\* ended in a transport error; a probe's transport error makes its own flag
\* false, and the other flag of the target still follows the other probe.
C3_OneOutcomePerNonBlankLine ==
  Collected =>
    /\ Len(results) = NonBlankCount
    /\ {results[a].idx : a \in 1..Len(results)} = 1..NonBlankCount
    /\ \A a \in 1..Len(results) :
         LET i == results[a].idx IN
           /\ Get(rresp[i]) = TransportError => ~results[a].readable
           /\ Get(wresp[i]) = TransportError => ~results[a].writable
           /\ results[a].writable
                <=> (Get(wresp[i]).ok /\ Get(wresp[i]).status \in 200..299)

\* C3's case: the input has a blank line and two other lines; both probes of
\* one target failed at transport level, and the other target is open.
C3_Witness ==
  /\ pc = "done"
  /\ \E n \in 1..Len(input) : IsBlankLine(input[n])
  /\ \E i, j \in Indices :
       /\ Get(rresp[i]) = TransportError
       /\ Get(wresp[i]) = TransportError
       /\ Get(writable[j])
       /\ \E a \in 1..Len(results) : results[a].idx = i

\* C4: with every request resolving and the pool's threads scheduled, every
\* run eventually finishes all probes and prints the summary (main returns).
C4_RunTerminates == <>(pc = "done")

\* C4's case: main has returned from a run over three targets on a pool of one
\* thread, in which both probes of one target ended in a transport error.
C4_Witness ==
  /\ pc = "done"
  /\ nworkers = 1
  /\ Len(lines) = MaxLines
  /\ \E i \in Indices :
       Get(rresp[i]) = TransportError /\ Get(wresp[i]) = TransportError

\* The marker of a provider is in the body.
MarkerFound(provider, body) ==
  \/ provider \in {"AwsS3", "DigitalOceanSpaces", "LinodeObjStorage"}
       /\ Contains(body, MarkerS3)
  \/ provider = "AzureBlob" /\ Contains(body, MarkerAzure)
  \/ provider = "GcpStorage" /\ (Contains(body, MarkerGcp) \/ Contains(body, MarkerXml))

\* C5: readable is true iff the GET returned without transport error, with a
\* 2xx status and a body holding the provider's marker (never for Unknown);
\* writable is true iff the PUT returned without transport error with a 2xx
\* status, whatever its body; each flag follows its own probe's response only.
C5_FlagsFollowOwnResponse ==
  \A i \in Indices :
    /\ IsSome(readable[i]) =>
         (Get(readable[i])
            <=> /\ Get(rresp[i]).ok
                /\ Get(rresp[i]).status \in 200..299
                /\ IsSome(Get(rresp[i]).body)
                /\ MarkerFound(Get(target[i]).provider, Get(Get(rresp[i]).body)))
    /\ IsSome(writable[i]) =>
         /\ Get(writable[i])
              <=> (Get(wresp[i]).ok /\ Get(wresp[i]).status \in 200..299)
         /\ Get(Get(ret[i])).readable = Get(readable[i])
         /\ Get(Get(ret[i])).writable = Get(writable[i])

\* C5's case: a GCP target whose GET returned a 2xx with a body that holds xml
\* and no ListBucketResult, and whose PUT returned a body with a marker and a
\* status that is not 2xx: readable and not writable.
C5_Witness ==
  \E i \in Indices :
    /\ st[i] = "done"
    /\ Get(target[i]).provider = "GcpStorage"
    /\ Get(rresp[i]) = Response(299, Some(MarkerXml))
    /\ Get(wresp[i]) = Response(300, Some(BodyListing))
    /\ Get(readable[i])
    /\ ~Get(writable[i])

\* The patterns of the classifier, in the order of the claim; the last one
\* matches everything.
RuleMatches(r, t) ==
  CASE r = 1 -> EndsWith(t, SfxAwsS3)
    [] r = 2 -> StartsWith(t, PfxAwsS3)
    [] r = 3 -> EndsWith(t, SfxDigitalOcean)
    [] r = 4 -> EndsWith(t, SfxLinode)
    [] r = 5 -> EndsWith(t, SfxAzure)
    [] r = 6 -> EndsWith(t, SfxGcp)
    [] r = 7 -> StartsWith(t, PfxGcp)
    [] OTHER -> TRUE

RuleProvider(r) ==
  CASE r \in {1, 2} -> "AwsS3"
    [] r = 3 -> "DigitalOceanSpaces"
    [] r = 4 -> "LinodeObjStorage"
    [] r = 5 -> "AzureBlob"
    [] r \in {6, 7} -> "GcpStorage"
    [] OTHER -> "Unknown"

FirstRule(t) == CHOOSE r \in 1..8 : RuleMatches(r, t) /\ \A q \in 1..(r - 1) : ~RuleMatches(q, t)

TagReads(tag) == tag \in {"[read] [write]", "[read]"}

TagWrites(tag) == tag \in {"[read] [write]", "[write]"}

Elems(s) == {s[n] : n \in 1..Len(s)}

\* C7: a summary line belongs to a target whose outcome has readable or
\* writable true, and lists read exactly when readable and write exactly when
\* writable, as the target's per-target tag did; and when the run is over every
\* such target has exactly one summary line.
C7_SummaryMatchesFlags ==
  /\ \A p \in SummaryPositions :
       LET i == stdout[p].idx
           tag == stdout[TargetPos(i)].status
       IN /\ TargetPos(i) > 0
          /\ Get(readable[i]) \/ Get(writable[i])
          /\ "read" \in Elems(stdout[p].perms) <=> Get(readable[i])
          /\ "write" \in Elems(stdout[p].perms) <=> Get(writable[i])
          /\ "read" \in Elems(stdout[p].perms) <=> TagReads(tag)
          /\ "write" \in Elems(stdout[p].perms) <=> TagWrites(tag)
          /\ Elems(stdout[p].perms) \subseteq {"read", "write"}
  /\ pc = "done" =>
       \A i \in Indices :
         Cardinality({p \in SummaryPositions : stdout[p].idx = i})
           = (IF Get(readable[i]) \/ Get(writable[i]) THEN 1 ELSE 0)

\* C7's case: the run is over with a target that is writable only, one that is
\* readable only and one with no access.
C7_Witness ==
  /\ pc = "done"
  /\ \E i, j, m \in Indices :
       /\ ~Get(readable[i]) /\ Get(writable[i]) /\ SummaryPos(i) > 0
       /\ Get(readable[j]) /\ ~Get(writable[j]) /\ SummaryPos(j) > 0
       /\ ~Get(readable[m]) /\ ~Get(writable[m]) /\ SummaryPos(m) = 0

\* The fields of a closure's tuple that the program has.
Tuple(o) == <<o.provider, o.bucket, o.readable, o.writable>>

C9_OneSuffixStripped ==
  \A i \in Indices :
    IsSome(target[i]) =>
      LET t == Trim(lines[i])
          b == Get(target[i]).bucket
      IN /\ EndsWith(t, SfxAwsS3) =>
              (b = StripSuffixOnce(t, SfxAwsS3) /\ b \o SfxAwsS3 = t)
         /\ (EndsWith(t, SfxGcp) /\ Get(target[i]).provider = "GcpStorage") =>
              (b = StripSuffixOnce(t, SfxGcp) /\ b \o SfxGcp = t)

\* C10: the collected results, and the summary lines, are in the order of the
\* input lines, whatever order the closures finished in.
C10_SummaryInInputOrder ==
  /\ \A a, b \in 1..Len(results) : a < b => results[a].idx < results[b].idx
  /\ \A p, q \in SummaryPositions : p < q => stdout[p].idx < stdout[q].idx

\* C10's case: three open targets whose per-target lines were printed in the
\* reverse of the input order, and whose summary lines are all printed.
C10_Witness ==
  /\ Len(lines) = 3
  /\ TargetPos(3) > 0
  /\ TargetPos(3) < TargetPos(2)
  /\ TargetPos(2) < TargetPos(1)
  /\ \A i \in Indices : SummaryPos(i) > 0

====
